---- MODULE Spec2Model ----
(***************************************************************************)
(* toml-query: the `set` path operation (src/set.rs) on a toml::Value      *)
(* document, together with the tokenizer and the mutable resolver it       *)
(* calls.  A query is modelled after splitting on the separator, as a      *)
(* sequence of segments; a segment is the sequence of its characters.      *)
(***************************************************************************)
EXTENDS Integers, Sequences, FiniteSets, TLC

VARIABLES doc, pre, query, value, result

vars == <<doc, pre, query, value, result>>

(***************************************************************************)
(* Bounds                                                                  *)
(***************************************************************************)
MaxSegs == 2      \* longest query, in segments
MaxLen == 3       \* longest array a document may hold

(***************************************************************************)
(* toml::Value: Table, Array, and the scalar Integer                       *)
(***************************************************************************)
Integer(n) == [kind |-> "Integer", v |-> n]
Table(f) == [kind |-> "Table", v |-> f]
Array(s) == [kind |-> "Array", v |-> s]

EmptyMap == [k \in {} |-> Integer(0)]

\* Option<T>: None is the empty sequence, Some(x) the one-element sequence
None == <<>>
Some(x) == <<x>>

(***************************************************************************)
(* Error (src/error.rs) and Result                                         *)
(***************************************************************************)
\* an error carrying an identifier, an index, or nothing
ErrIdent(k, ident) == [tag |-> "Err", kind |-> k, ident |-> ident, idx |-> 0]
ErrIdx(k, idx) == [tag |-> "Err", kind |-> k, ident |-> <<>>, idx |-> idx]
ErrPlain(k) == [tag |-> "Err", kind |-> k, ident |-> <<>>, idx |-> 0]

\* Ok(None) / Ok(Some(old)) of Result<Option<Value>>
Ok(old) == [tag |-> "Ok", old |-> old]

\* the call did not return: a panic (unwrap of None, index out of bounds)
Panic == [tag |-> "Panic"]

NoCall == [tag |-> "NoCall"]

(***************************************************************************)
(* Token and the tokenizer                                                 *)
(***************************************************************************)
Identifier(ident) == [kind |-> "Identifier", ident |-> ident, idx |-> 0]
Index(idx) == [kind |-> "Index", ident |-> <<>>, idx |-> idx]

DigitVal ==
    ("0" :> 0) @@ ("1" :> 1) @@ ("2" :> 2) @@ ("3" :> 3) @@ ("4" :> 4) @@
    ("5" :> 5) @@ ("6" :> 6) @@ ("7" :> 7) @@ ("8" :> 8) @@ ("9" :> 9)

IsDigit(c) == c \in DOMAIN DigitVal

RECURSIVE ParseDecimal(_, _)
ParseDecimal(chars, acc) ==
    IF chars = <<>> THEN acc
    ELSE ParseDecimal(Tail(chars), acc * 10 + DigitVal[Head(chars)])

IsBracketed(seg) == Len(seg) >= 2 /\ seg[1] = "[" /\ seg[Len(seg)] = "]"

Inner(seg) == SubSeq(seg, 2, Len(seg) - 1)

\* one segment -> Ok(token) or the tokenizer's error
tokenize_segment(seg) ==
    IF seg = <<>> THEN ErrPlain("EmptyIdentifier")
    ELSE IF IsBracketed(seg)
    THEN IF Inner(seg) = <<>> THEN ErrPlain("ArrayAccessWithoutIndex")
         ELSE IF \A i \in 1..Len(Inner(seg)) : IsDigit(Inner(seg)[i])
              THEN [tag |-> "Ok", token |-> Index(ParseDecimal(Inner(seg), 0))]
              ELSE ErrPlain("ArrayAccessWithInvalidIndex")
    ELSE [tag |-> "Ok", token |-> Identifier(seg)]

RECURSIVE tokenize_segments(_, _)
tokenize_segments(segs, acc) ==
    IF segs = <<>> THEN [tag |-> "Ok", tokens |-> acc]
    ELSE LET t == tokenize_segment(Head(segs))
         IN  IF t.tag = "Err" THEN t
             ELSE tokenize_segments(Tail(segs), Append(acc, t.token))

\* the empty query splits into the single empty segment
tokenize_with_seperator(q) ==
    IF q = <<<<>>>> THEN ErrPlain("EmptyQueryError")
    ELSE tokenize_segments(q, <<>>)

\* Token::pop_last: detaches the last token of the chain; a chain of one
\* token has nothing to detach and stays as it is
pop_last(tokens) ==
    IF Len(tokens) = 1 THEN [tokens |-> tokens, last |-> None]
    ELSE [tokens |-> SubSeq(tokens, 1, Len(tokens) - 1),
          last |-> Some(tokens[Len(tokens)])]

(***************************************************************************)
(* Places in a document: a path is the sequence of tokens walked from the  *)
(* root; a `&mut Value` is the path of the node it borrows                 *)
(***************************************************************************)
Child(node, t) ==
    IF t.kind = "Identifier" THEN node.v[t.ident] ELSE node.v[t.idx + 1]

RECURSIVE NodeAt(_, _)
NodeAt(node, path) ==
    IF path = <<>> THEN node ELSE NodeAt(Child(node, Head(path)), Tail(path))

RECURSIVE ReplaceAt(_, _, _)
ReplaceAt(node, path, new) ==
    IF path = <<>> THEN new
    ELSE LET t == Head(path)
             sub == ReplaceAt(Child(node, t), Tail(path), new)
         IN  IF t.kind = "Identifier"
             THEN Table([node.v EXCEPT ![t.ident] = sub])
             ELSE Array([node.v EXCEPT ![t.idx + 1] = sub])

(***************************************************************************)
(* resolver::mut_resolver::resolve.  Every token of the chain it is given  *)
(* is navigated, left to right, and the node reached is returned.  With    *)
(* the flag as set passes it (true) a missing identifier is the error      *)
(* IdentifierNotFoundInDocument, which is what the set tests expect of a   *)
(* missing table; with false it is Ok(None).  A missing array index is an  *)
(* error whose kind error.rs does not name: "IndexMissing" stands for it.  *)
(***************************************************************************)
ResolveSome(path) == [tag |-> "Some", path |-> path]
ResolveNone == [tag |-> "None"]

RECURSIVE resolve_at(_, _, _, _)
resolve_at(node, tokens, path, error_if_not_found) ==
    LET t == Head(tokens)
        next == Tail(tokens)
        here == Append(path, t)
    IN  IF node.kind = "Table"
        THEN IF t.kind = "Identifier"
             THEN IF t.ident \in DOMAIN node.v
                  THEN IF next = <<>> THEN ResolveSome(here)
                       ELSE resolve_at(node.v[t.ident], next, here,
                                       error_if_not_found)
                  ELSE IF error_if_not_found
                       THEN ErrIdent("IdentifierNotFoundInDocument", t.ident)
                       ELSE ResolveNone
             ELSE ErrIdx("NoIndexInTable", t.idx)
        ELSE IF node.kind = "Array"
        THEN IF t.kind = "Index"
             THEN IF t.idx < Len(node.v)
                  THEN IF next = <<>> THEN ResolveSome(here)
                       ELSE resolve_at(node.v[t.idx + 1], next, here,
                                       error_if_not_found)
                  ELSE ErrIdx("IndexMissing", t.idx)
             ELSE ErrIdent("NoIdentifierInArray", t.ident)
        ELSE IF t.kind = "Identifier"
             THEN ErrIdent("QueryingValueAsTable", t.ident)
             ELSE ErrIdx("QueryingValueAsArray", t.idx)

resolve(toml, tokens, error_if_not_found) ==
    resolve_at(toml, tokens, <<>>, error_if_not_found)

(***************************************************************************)
(* The container operations set.rs calls                                   *)
(***************************************************************************)
\* Map::insert: the map with k bound to x, and the value k had before
map_insert(t, k, x) ==
    [map |-> [j \in DOMAIN t \cup {k} |-> IF j = k THEN x ELSE t[j]],
     old |-> IF k \in DOMAIN t THEN Some(t[k]) ELSE None]

\* Vec::swap_remove: removes element idx and puts the last element in its
\* place
swap_remove(a, idx) ==
    [vec |-> [j \in 1..(Len(a) - 1) |->
                 IF j = idx + 1 THEN a[Len(a)] ELSE a[j]],
     removed |-> a[idx + 1]]

\* Vec::insert: x at position idx, everything from idx on shifted right
vec_insert(a, idx, x) ==
    [j \in 1..(Len(a) + 1) |->
        IF j <= idx THEN a[j] ELSE IF j = idx + 1 THEN x ELSE a[j - 1]]

\* Vec::push
push(a, x) == Append(a, x)

(***************************************************************************)
(* TomlValueSetExt::set_with_seperator                                     *)
(***************************************************************************)
\* as apply_identifier, but the Array arm pushes the value before it fails
apply_identifier_push(val, ident, x) ==
    IF val.kind = "Table"
    THEN LET r == map_insert(val.v, ident, x)
         IN  [node |-> Table(r.map), res |-> Ok(r.old)]
    ELSE IF val.kind = "Array"
    THEN [node |-> Array(push(val.v, x)),
          res |-> ErrIdent("NoIdentifierInArray", ident)]
    ELSE [node |-> val, res |-> ErrIdent("QueryingValueAsTable", ident)]

\* the arm `Token::Identifier { ident, .. } => match val`
apply_identifier(val, ident, x) ==
    IF val.kind = "Table"
    THEN LET r == map_insert(val.v, ident, x)
         IN  [node |-> Table(r.map), res |-> Ok(r.old)]
    ELSE IF val.kind = "Array"
    THEN [node |-> val, res |-> ErrIdent("NoIdentifierInArray", ident)]
    ELSE [node |-> val, res |-> ErrIdent("QueryingValueAsTable", ident)]

\* as apply_index, but the Table arm and the catch-all arm are exchanged
apply_index_swapped(val, idx, x) ==
    IF val.kind = "Array"
    THEN IF Len(val.v) > idx
         THEN LET r == swap_remove(val.v, idx)
              IN  [node |-> Array(vec_insert(r.vec, idx, x)),
                   res |-> Ok(Some(r.removed))]
         ELSE [node |-> Array(push(val.v, x)), res |-> Ok(None)]
    ELSE IF val.kind = "Table"
    THEN [node |-> val, res |-> ErrIdx("QueryingValueAsArray", idx)]
    ELSE [node |-> val, res |-> ErrIdx("NoIndexInTable", idx)]

\* the arm `Token::Index { idx, .. } => match val`
apply_index(val, idx, x) ==
    IF val.kind = "Array"
    THEN IF Len(val.v) > idx
         THEN LET r == swap_remove(val.v, idx)
              IN  [node |-> Array(vec_insert(r.vec, idx, x)),
                   res |-> Ok(Some(r.removed))]
         ELSE [node |-> Array(push(val.v, x)), res |-> Ok(None)]
    ELSE IF val.kind = "Table"
    THEN [node |-> val, res |-> ErrIdx("NoIndexInTable", idx)]
    ELSE [node |-> val, res |-> ErrIdx("QueryingValueAsArray", idx)]

\* `match *last`
apply_last(val, last, x) ==
    IF last.kind = "Identifier"
    THEN apply_identifier(val, last.ident, x)
    ELSE apply_index(val, last.idx, x)

\* as resolve_parent, but with the flag false: a missing identifier is
\* Ok(None), which the caller unwraps
resolve_parent_false(self, tokens) == resolve(self, tokens, FALSE)

\* `resolve(self, &tokens, true)`
resolve_parent(self, tokens) == resolve(self, tokens, TRUE)

\* as set_with_seperator, but a resolver error is dropped and the call
\* answers Ok(None)
set_with_seperator_lenient(self, q, x) ==
    LET tk == tokenize_with_seperator(q)
    IN  IF tk.tag = "Err" THEN [doc |-> self, res |-> tk]
        ELSE
        LET pl == pop_last(tk.tokens)
            r == resolve_parent(self, pl.tokens)
        IN  IF r.tag # "Some" THEN [doc |-> self, res |-> Ok(None)]
            ELSE
            LET last == IF pl.last = None THEN Head(pl.tokens)
                        ELSE pl.last[1]
                ap == apply_last(NodeAt(self, r.path), last, x)
            IN  [doc |-> ReplaceAt(self, r.path, ap.node), res |-> ap.res]

\* the whole call: the document afterwards and the value returned
set_with_seperator(self, q, x) ==
    LET tk == tokenize_with_seperator(q)
    IN  IF tk.tag = "Err" THEN [doc |-> self, res |-> tk]
        ELSE
        LET pl == pop_last(tk.tokens)
            r == resolve_parent(self, pl.tokens)
        IN  IF r.tag = "Err" THEN [doc |-> self, res |-> r]
            ELSE IF r.tag = "None" THEN [doc |-> self, res |-> Panic]
            ELSE
            LET last == IF pl.last = None THEN Head(pl.tokens)
                        ELSE pl.last[1]
                ap == apply_last(NodeAt(self, r.path), last, x)
            IN  [doc |-> ReplaceAt(self, r.path, ap.node), res |-> ap.res]

(***************************************************************************)
(* get: walks every token of the query, read-only                          *)
(***************************************************************************)
RECURSIVE read_at(_, _)
read_at(node, tokens) ==
    IF tokens = <<>> THEN [tag |-> "Ok", some |-> Some(node)]
    ELSE LET t == Head(tokens)
         IN  IF node.kind = "Table"
             THEN IF t.kind = "Identifier"
                  THEN IF t.ident \in DOMAIN node.v
                       THEN read_at(node.v[t.ident], Tail(tokens))
                       ELSE ErrIdent("IdentifierNotFoundInDocument", t.ident)
                  ELSE ErrIdx("NoIndexInTable", t.idx)
             ELSE IF node.kind = "Array"
             THEN IF t.kind = "Index"
                  THEN IF t.idx < Len(node.v)
                       THEN read_at(node.v[t.idx + 1], Tail(tokens))
                       ELSE ErrIdx("IndexMissing", t.idx)
                  ELSE ErrIdent("NoIdentifierInArray", t.ident)
             ELSE IF t.kind = "Identifier"
                  THEN ErrIdent("QueryingValueAsTable", t.ident)
                  ELSE ErrIdx("QueryingValueAsArray", t.idx)

get_with_seperator(self, q) ==
    LET tk == tokenize_with_seperator(q)
    IN  IF tk.tag = "Err" THEN tk ELSE read_at(self, tk.tokens)

(***************************************************************************)
(* Inputs                                                                  *)
(***************************************************************************)
KeyA == <<"a">>
KeyB == <<"b">>

Segments ==
    {KeyA, KeyB, <<"[", "0", "]">>, <<"[", "1", "]">>, <<"[", "1", "0", "]">>,
     <<>>, <<"[", "]">>, <<"[", "x", "]">>}

Queries == UNION {[1..n -> Segments] : n \in 1..MaxSegs}

\* the value set: an integer no initial document holds
Values == {Integer(9)}

Ints(s) == [i \in DOMAIN s |-> Integer(s[i])]

InitDocs ==
    { Table(EmptyMap),
      Integer(5),
      Array(Ints(<<0, 1, 2>>)),
      Table((KeyA :> Table((KeyA :> Integer(0)) @@ (KeyB :> Integer(1))))
            @@ (KeyB :> Integer(2))),
      Table((KeyA :> Array(Ints(<<0, 1, 2>>))) @@ (KeyB :> Table(EmptyMap))),
      Table((KeyA :> Array(<<Table(EmptyMap), Array(<<>>)>>))),
      Array(<<Array(Ints(<<0, 1>>)), Table((KeyB :> Integer(4)))>>) }

\* the longest array anywhere in a document
RECURSIVE LongestArray(_)
LongestArray(node) ==
    LET Max(S) == IF S = {} THEN 0 ELSE CHOOSE m \in S : \A n \in S : n <= m
    IN  IF node.kind = "Integer" THEN 0
        ELSE IF node.kind = "Array"
        THEN Max({Len(node.v)} \cup {LongestArray(node.v[i]) : i \in DOMAIN node.v})
        ELSE Max({LongestArray(node.v[k]) : k \in DOMAIN node.v})

(***************************************************************************)
(* The state machine: a caller owns one document and calls set on it, one  *)
(* call after the other, until a call fails (the error is propagated) or   *)
(* panics.  pre, query and value record the last call's inputs.            *)
(***************************************************************************)
Init ==
    /\ doc \in InitDocs
    /\ pre = doc
    /\ query = <<>>
    /\ value = Integer(0)
    /\ result = NoCall

Set(q, x) ==
    LET r == set_with_seperator(doc, q, x)
    IN  /\ result.tag \in {"NoCall", "Ok"}
        /\ LongestArray(r.doc) <= MaxLen
        /\ pre' = doc
        /\ query' = q
        /\ value' = x
        /\ doc' = r.doc
        /\ result' = r.res

Next == \E q \in Queries, x \in Values : Set(q, x)

Spec == Init /\ [][Next]_vars

(***************************************************************************)
(* Vocabulary of the properties: the last call's tokens, and the parent    *)
(* container that the navigation tokens (all tokens but the last) name in  *)
(* the document the call started from                                      *)
(***************************************************************************)
Called == result.tag # "NoCall"

Tokenized == tokenize_with_seperator(query)

Tokenizes == Called /\ Tokenized.tag = "Ok"

NavTokens == SubSeq(Tokenized.tokens, 1, Len(Tokenized.tokens) - 1)

LastToken == Tokenized.tokens[Len(Tokenized.tokens)]

\* the per-step transition rule without creation; no token: the node itself
RECURSIVE navigate(_, _, _)
navigate(node, tokens, path) ==
    IF tokens = <<>> THEN ResolveSome(path)
    ELSE LET t == Head(tokens)
         IN  CASE node.kind = "Table" /\ t.kind = "Identifier" ->
                    IF t.ident \in DOMAIN node.v
                    THEN navigate(node.v[t.ident], Tail(tokens),
                                  Append(path, t))
                    ELSE ErrIdent("IdentifierNotFoundInDocument", t.ident)
               [] node.kind = "Table" /\ t.kind = "Index" ->
                    ErrIdx("NoIndexInTable", t.idx)
               [] node.kind = "Array" /\ t.kind = "Identifier" ->
                    ErrIdent("NoIdentifierInArray", t.ident)
               [] node.kind = "Array" /\ t.kind = "Index" ->
                    IF t.idx < Len(node.v)
                    THEN navigate(node.v[t.idx + 1], Tail(tokens),
                                  Append(path, t))
                    ELSE ErrIdx("IndexMissing", t.idx)
               [] node.kind = "Integer" /\ t.kind = "Identifier" ->
                    ErrIdent("QueryingValueAsTable", t.ident)
               [] node.kind = "Integer" /\ t.kind = "Index" ->
                    ErrIdx("QueryingValueAsArray", t.idx)

Parent == navigate(pre, NavTokens, <<>>)

Navigated == Tokenizes /\ Parent.tag = "Some"

ParentNode == NodeAt(pre, Parent.path)

RECURSIVE SumOver(_, _)
SumOver(f, S) ==
    IF S = {} THEN 0
    ELSE LET x == CHOOSE y \in S : TRUE IN f[x] + SumOver(f, S \ {x})

\* how many nodes of the given kind ("Table", "Array") a document holds
RECURSIVE CountKind(_, _)
CountKind(node, kind) ==
    (IF node.kind = kind THEN 1 ELSE 0) +
    (IF node.kind = "Integer" THEN 0
     ELSE SumOver([k \in DOMAIN node.v |-> CountKind(node.v[k], kind)],
                  DOMAIN node.v))

\* C1: when the navigation tokens resolve to a Table T and the last token
\* is Identifier(k), set binds k to the value in T, leaves every other key
\* of T (and the rest of the document) alone, and returns Ok(Some(old)) if k
\* was bound to old and Ok(None) if k was absent.
C1_IdentifierIntoTable ==
    (Navigated /\ ParentNode.kind = "Table" /\ LastToken.kind = "Identifier")
    => LET T == ParentNode.v
           k == LastToken.ident
       IN  /\ result = Ok(IF k \in DOMAIN T THEN Some(T[k]) ELSE None)
           /\ doc = ReplaceAt(pre, Parent.path,
                      Table([j \in DOMAIN T \cup {k} |->
                                IF j = k THEN value ELSE T[j]]))

\* C2: on an Array A with idx < len(A), set with last token Index(idx) is a
\* pure replace: it returns Ok(Some(A[idx])), A[idx] becomes the value, the
\* length is unchanged and every other element stays at its position.
C2_IndexReplacesInPlace ==
    (Navigated /\ ParentNode.kind = "Array" /\ LastToken.kind = "Index"
       /\ LastToken.idx < Len(ParentNode.v))
    => LET A == ParentNode.v
           idx == LastToken.idx
       IN  /\ result = Ok(Some(A[idx + 1]))
           /\ doc = ReplaceAt(pre, Parent.path,
                      Array([A EXCEPT ![idx + 1] = value]))

\* C3: on an Array A with idx >= len(A), set with last token Index(idx)
\* appends: Ok(None) is returned, the new length is len(A)+1, the value is
\* at position len(A) and the previous elements keep their positions.
C3_IndexBeyondEndAppends ==
    (Navigated /\ ParentNode.kind = "Array" /\ LastToken.kind = "Index"
       /\ LastToken.idx >= Len(ParentNode.v))
    => /\ result = Ok(None)
       /\ doc = ReplaceAt(pre, Parent.path,
                  Array(Append(ParentNode.v, value)))

\* C4: set never creates an intermediate Table or Array: a navigation
\* identifier k absent from the Table reached so far makes the call return
\* IdentifierNotFoundInDocument(k) and leaves the document as it was, and
\* no call leaves the document with more Tables or more Arrays than it had.
C4_NoIntermediateCreation ==
    /\ (Tokenizes /\ Parent.tag = "Err"
          /\ Parent.kind = "IdentifierNotFoundInDocument")
       => /\ result = ErrIdent("IdentifierNotFoundInDocument", Parent.ident)
          /\ doc = pre
    /\ Called => /\ CountKind(doc, "Table") <= CountKind(pre, "Table")
                 /\ CountKind(doc, "Array") <= CountKind(pre, "Array")

C4_Witness ==
    /\ Tokenizes
    /\ Len(NavTokens) >= 1
    /\ Parent.tag = "Err"
    /\ Parent.kind = "IdentifierNotFoundInDocument"
    /\ result.tag = "Err"

\* C5: whenever set returns an error, the document equals the document
\* before the call.
C5_ErrorLeavesDocument ==
    (Called /\ result.tag = "Err") => doc = pre

C5_Witness ==
    /\ Navigated
    /\ Len(NavTokens) >= 1
    /\ ParentNode.kind = "Array"
    /\ Len(ParentNode.v) >= 1
    /\ result.tag = "Err"
    /\ result.kind = "NoIdentifierInArray"

\* C6: when navigation succeeds and the last token's kind disagrees with
\* the container reached, the error names the offending token:
\* Identifier(k) against an Array gives NoIdentifierInArray(k), against a
\* scalar QueryingValueAsTable(k); Index(i) against a Table gives
\* NoIndexInTable(i), against a scalar QueryingValueAsArray(i).
C6_ShapeErrors ==
    Navigated =>
      /\ (LastToken.kind = "Identifier" /\ ParentNode.kind = "Array")
         => result = ErrIdent("NoIdentifierInArray", LastToken.ident)
      /\ (LastToken.kind = "Identifier" /\ ParentNode.kind = "Integer")
         => result = ErrIdent("QueryingValueAsTable", LastToken.ident)
      /\ (LastToken.kind = "Index" /\ ParentNode.kind = "Table")
         => result = ErrIdx("NoIndexInTable", LastToken.idx)
      /\ (LastToken.kind = "Index" /\ ParentNode.kind = "Integer")
         => result = ErrIdx("QueryingValueAsArray", LastToken.idx)

C6_Witness ==
    /\ Navigated
    /\ Len(NavTokens) >= 1
    /\ LastToken.kind = "Index"
    /\ LastToken.idx = 10
    /\ ParentNode.kind = "Integer"
    /\ result.tag = "Err"

\* C7: if set(query, value) succeeds, get with the same query on the
\* resulting document succeeds and returns exactly that value.
C7_SetThenGet ==
    (Called /\ result.tag = "Ok")
    => get_with_seperator(doc, query) = [tag |-> "Ok", some |-> Some(value)]

\* C8: if the query ends in an index and the array at the parent path has
\* no element at that index, set returns Err and does not modify the array.
C8_MissingIndexIsError ==
    (Navigated /\ ParentNode.kind = "Array" /\ LastToken.kind = "Index"
       /\ LastToken.idx >= Len(ParentNode.v))
    => (result.tag = "Err" /\ doc = pre)

\* C9: a one-token query is applied directly against the root: on a root
\* Table, "k" inserts or replaces key k (Ok(None) if k was absent,
\* Ok(Some(old)) otherwise) and "[i]" fails with NoIndexInTable(i).
C9_OneTokenAgainstRoot ==
    (Tokenizes /\ Len(Tokenized.tokens) = 1 /\ pre.kind = "Table")
    => LET t == Tokenized.tokens[1]
       IN  IF t.kind = "Identifier"
           THEN /\ result = Ok(IF t.ident \in DOMAIN pre.v
                               THEN Some(pre.v[t.ident]) ELSE None)
                /\ doc = Table(map_insert(pre.v, t.ident, value).map)
           ELSE /\ result = ErrIdx("NoIndexInTable", t.idx)
                /\ doc = pre

====
